---- MODULE Spec2Model ----
(***************************************************************************)
(* jsonata-extended: the extension functions of src/lib/jsonata-functions  *)
(* (truncate and the delegating adapters), their registration on a JSONata *)
(* expression object, and the drop-in wrapper jsonataExtended.             *)
(*                                                                         *)
(* Strings are sequences of UTF-16 code units.  The unit alphabet has one  *)
(* letter "a", the space " ", a high surrogate "H" and a low surrogate     *)
(* "L"; "." only occurs in omission markers and "Z" is U+200D, the         *)
(* placeholder truncate writes for a surrogate pair.                       *)
(***************************************************************************)
EXTENDS Integers, Sequences, FiniteSets, TLC

VARIABLES
  host,        \* the expression object handed to registerWithJSONATA
  bound,       \* the registerFunction calls made on the host, in order
  regCalls,    \* registerWithJSONATA calls made with the host so far
  regResult,   \* the last registerWithJSONATA / jsonataExtended call and its outcome
  fn,          \* the registered function being called ("none" when idle)
  value,       \* its first argument
  arg2,        \* its second argument (options, base, template)
  pc,          \* "idle", "regexloop" (inside truncate's do-while) or "done"
  separator,   \* localOptions.separator of the running truncate call
  lastIndex,   \* lastIndex of the compiled wordbreakregex
  lastMatch,   \* truncate's lastMatch
  result,      \* what the call returned or threw
  delegates    \* the delegate libraries the call invoked, in order

vars == <<host, bound, regCalls, regResult, fn, value, arg2, pc, separator, lastIndex,
          lastMatch, result, delegates>>

-----------------------------------------------------------------------------
(* Bounds of the model *)

MaxValueLen == 4      \* code units of a truncate input
MaxLength == 2        \* largest options.length a caller supplies
MaxRegistrations == 2 \* registerWithJSONATA calls made on one host

-----------------------------------------------------------------------------
(* JavaScript values *)

Undefined == [t |-> "undefined"]
Null == [t |-> "null"]
Absent == [t |-> "absent"]          \* a property the object does not have
\* each type keeps its payload in a field of its own
Str(s) == [t |-> "string", s |-> s]
Num(n) == [t |-> "number", n |-> n]
Bool(b) == [t |-> "boolean", b |-> b]

\* typeof x: a missing property reads as undefined, typeof null is 'object'
TypeOf(x) ==
  CASE x.t = "absent" -> "undefined"
    [] x.t = "null" -> "object"
    [] OTHER -> x.t

\* ToBoolean: undefined, null, 0, false and "" are falsy
Truthy(x) ==
  CASE x.t \in {"undefined", "absent", "null"} -> FALSE
    [] x.t = "string" -> x.s # <<>>
    [] x.t = "number" -> x.n # 0
    [] x.t = "boolean" -> x.b
    [] OTHER -> TRUE

Return(v) == [kind |-> "return", val |-> v]
Throw(class, msg) == [kind |-> "throw", class |-> class, msg |-> msg]
\* an error whose message also shows a value
ThrowAbout(class, msg, about) ==
  [kind |-> "throw", class |-> class, msg |-> msg, about |-> about]
NoResult == [kind |-> "none"]

Min(a, b) == IF a <= b THEN a ELSE b
Max(a, b) == IF a >= b THEN a ELSE b

-----------------------------------------------------------------------------
(* Strings, codepoints and arrays *)

Units == {"a", " ", "H", "L"}

Strings(n) == UNION {[1..k -> Units] : k \in 0..n}

\* [...s]: the string iterator yields one element per codepoint; a high
\* surrogate directly followed by a low surrogate is one codepoint of two units
RECURSIVE Spread(_)
Spread(s) ==
  IF s = <<>> THEN <<>>
  ELSE IF Len(s) >= 2 /\ s[1] = "H" /\ s[2] = "L"
       THEN <<SubSeq(s, 1, 2)>> \o Spread(SubSeq(s, 3, Len(s)))
       ELSE <<SubSeq(s, 1, 1)>> \o Spread(Tail(s))

\* arr.join('')
RECURSIVE Join(_)
Join(arr) == IF arr = <<>> THEN <<>> ELSE Head(arr) \o Join(Tail(arr))

\* arr.slice(0, end): a negative end counts back from the end of the array
ArraySlice(arr, end) ==
  LET len == Len(arr)
      final == IF end < 0 THEN Max(len + end, 0) ELSE Min(end, len)
  IN SubSeq(arr, 1, final)

\* arr.lastIndexOf(x): the last element strictly equal to x, else -1
ArrayLastIndexOf(arr, x) ==
  LET hits == {i \in 1..Len(arr) : arr[i] = x}
  IN IF hits = {} THEN -1
     ELSE (CHOOSE i \in hits : \A j \in hits : j <= i) - 1

\* s.replace(/([\uD800-\uDBFF])([\uDC00-\uDFFF])/g, '\u200D'), "Z" standing for U+200D
RECURSIVE ReplaceSurrogatePairs(_)
ReplaceSurrogatePairs(s) ==
  IF s = <<>> THEN <<>>
  ELSE IF Len(s) >= 2 /\ s[1] = "H" /\ s[2] = "L"
       THEN <<"Z">> \o ReplaceSurrogatePairs(SubSeq(s, 3, Len(s)))
       ELSE <<s[1]>> \o ReplaceSurrogatePairs(Tail(s))

-----------------------------------------------------------------------------
(* Regular expressions: new RegExp(source, 'gu') and RegExp.prototype.exec *)

\* The wordbreakregex sources callers pass.  A compiled pattern is a list of
\* alternatives tried in order, each a list of character classes.
RxSpace == <<"\\", "s">>     \* \s   one whitespace character
RxBad == <<"[">>             \* [    does not compile
RxOptA == <<"a", "?">>       \* a?   an "a", or the empty string
RxUnclosed == <<"(">>        \* (    does not compile either
\* [\s\.%,:;\?_]   one of the word-break characters of the documented example
RxBreaks == <<"[", "\\", "s", "\\", ".", "%", ",", ":", ";", "\\", "?", "_", "]">>

RegExpSources == {RxSpace, RxBad, RxOptA}

\* the object new RegExp(source, 'gu') returns
RegExpObject(source) == [t |-> "object", regexp |-> source]

\* new RegExp(source, 'gu'): ok = FALSE when the constructor throws
NewRegExp(source) ==
  CASE source = RxSpace -> [ok |-> TRUE, alts |-> << <<{" "}>> >>]
    [] source = RxOptA -> [ok |-> TRUE, alts |-> << <<{"a"}>>, <<>> >>]
    [] source = RxBreaks ->
         [ok |-> TRUE, alts |-> << <<{" ", ".", "%", ",", ":", ";", "?", "_"}>> >>]
    [] OTHER -> [ok |-> FALSE, alts |-> <<>>]

\* alternative alt matches s at 0-based index i
MatchAt(alt, s, i) ==
  /\ i + Len(alt) <= Len(s)
  /\ \A k \in 1..Len(alt) : s[i + k] \in alt[k]

\* re.exec(s) of a global regex: search from lastIndex; a match moves
\* lastIndex to the end of the match (an empty match leaves it where it is),
\* a failure resets it to 0
RegExpExec(alts, s, from) ==
  LET pos == {i \in from..Len(s) : \E j \in 1..Len(alts) : MatchAt(alts[j], s, i)}
  IN IF pos = {}
     THEN [matched |-> FALSE, index |-> -1, lastIndex |-> 0]
     ELSE LET i == CHOOSE p \in pos : \A q \in pos : p <= q
              j == CHOOSE a \in 1..Len(alts) :
                     /\ MatchAt(alts[a], s, i)
                     /\ \A b \in 1..(a - 1) : ~MatchAt(alts[b], s, i)
          IN [matched |-> TRUE, index |-> i, lastIndex |-> i + Len(alts[j])]

-----------------------------------------------------------------------------
(* truncate(value, options), lines 621-705 *)

DefaultLength == 30
DefaultOmission == <<".", ".", ".">>

Obj(fields) == [t |-> "object", o |-> fields]

\* { ...options, ...defaultOptions }: the defaults override the caller's fields
localOptionsDefaultsLast(options) ==
  LET has(f) == options.t = "object" /\ options.o[f].t # "absent"
  IN [length |-> Num(DefaultLength),
      omission |-> Str(DefaultOmission),
      wordbreak |-> IF has("wordbreak") THEN options.o.wordbreak ELSE Undefined,
      wordbreakregex |-> IF has("wordbreakregex") THEN options.o.wordbreakregex
                         ELSE Undefined]

\* const localOptions = { ...defaultOptions, ...options }: a property the
\* caller supplies (even with the value undefined) overrides the default
localOptions(options) ==
  LET has(f) == options.t = "object" /\ options.o[f].t # "absent"
  IN [length |-> IF has("length") THEN options.o.length ELSE Num(DefaultLength),
      omission |-> IF has("omission") THEN options.o.omission
                   ELSE Str(DefaultOmission),
      wordbreak |-> IF has("wordbreak") THEN options.o.wordbreak ELSE Undefined,
      wordbreakregex |-> IF has("wordbreakregex") THEN options.o.wordbreakregex
                         ELSE Undefined]

\* the TypeError of lines 633-663: expected type, field, received value, its type
OptionTypeError(expected, field, received) ==
  ThrowAbout("TypeError", "Expected a " \o expected \o ". Received",
             [field |-> field, received |-> received, type |-> TypeOf(received)])

\* value.split(''): one element per code unit
unicodeArrayByUnits(v) == [i \in 1..Len(v.s) |-> <<v.s[i]>>]

unicodeArray(v) == Spread(v.s)

\* localOptions.omission.length: the UTF-16 code units of omission
omissionCountByUnits(lo) == Len(lo.omission.s)

\* [...localOptions.omission].length
omissionCount(lo) == Len(Spread(lo.omission.s))

endslice(lo) == lo.length.n - omissionCount(lo)

firstSlice(v, lo) == ArraySlice(unicodeArray(v), endslice(lo))

firstSliceString(v, lo) == Join(firstSlice(v, lo))

firstSliceStringNormalised(v, lo) == ReplaceSurrogatePairs(firstSliceString(v, lo))

\* localOptions.wordbreakregex && _.isString(localOptions.wordbreakregex)
usesRegex(lo) == Truthy(lo.wordbreakregex) /\ TypeOf(lo.wordbreakregex) = "string"

\* the literal separator looked up whether or not the regex matched
usesWordbreakAlways(lo, lm) ==
  Truthy(lo.wordbreak) /\ TypeOf(lo.wordbreak) = "string"

\* localOptions.wordbreak && _.isString(localOptions.wordbreak) && lastMatch === -1
usesWordbreak(lo, lm) ==
  Truthy(lo.wordbreak) /\ TypeOf(lo.wordbreak) = "string" /\ lm = -1

\* lines 696-698: the literal separator is looked up in the array firstSlice
wordbreakMatch(v, lo, lm) ==
  IF usesWordbreak(lo, lm) THEN ArrayLastIndexOf(firstSlice(v, lo), lo.wordbreak.s)
  ELSE lm

\* value.slice(0, lastMatch): the match index used as a code-unit index
truncatedByUnits(v, lo, lm) ==
  LET final == IF lm # -1 THEN SubSeq(v.s, 1, Min(lm, Len(v.s)))
               ELSE Join(firstSlice(v, lo))
  IN Str(final \o lo.omission.s)

\* lines 702-704
truncated(v, lo, lm) ==
  LET final == IF lm # -1 THEN ArraySlice(unicodeArray(v), lm) ELSE firstSlice(v, lo)
  IN Str(Join(final) \o lo.omission.s)

\* lines 696-704, entered with the lastMatch the regex loop left
truncateTail(v, lo, lm, sep) ==
  [pc |-> "done",
   result |-> Return(truncated(v, lo, wordbreakMatch(v, lo, lm))),
   separator |-> IF usesWordbreak(lo, lm) THEN lo.wordbreak ELSE sep,
   lastIndex |-> 0,
   lastMatch |-> wordbreakMatch(v, lo, lm)]

\* the SyntaxError of the RegExp constructor reaching the caller
regexFailureRaw(source) ==
  ThrowAbout("SyntaxError", "Invalid regular expression", Str(source))

\* lines 691-693: whatever the try block threw is replaced by one Error
regexFailure(source) == Throw("Error", "Error Processing workdbreakregex.")

Finished(r) ==
  [pc |-> "done", result |-> r, separator |-> Undefined, lastIndex |-> 0,
   lastMatch |-> -1]

\* lines 621-686: from the call to the first exec of the do-while, or to the
\* return or throw that ends the call before it
truncateEnter(v, o) ==
  IF TypeOf(v) = "undefined" THEN Finished(Return(Undefined))
  ELSE LET lo == localOptions(o) IN
    IF TypeOf(lo.length) # "number"
    THEN Finished(OptionTypeError("number", "options.length", lo.length))
    ELSE IF TypeOf(lo.omission) # "string"
    THEN Finished(OptionTypeError("string", "options.omission", lo.omission))
    ELSE IF Truthy(lo.wordbreak) /\ TypeOf(lo.wordbreak) # "string"
    THEN Finished(OptionTypeError("string", "options.wordbreak", lo.wordbreak))
    ELSE IF Truthy(lo.wordbreakregex) /\ TypeOf(lo.wordbreakregex) # "string"
    THEN Finished(OptionTypeError("string", "options.wordbreakregex",
                                  lo.wordbreakregex))
    ELSE IF Len(unicodeArray(v)) <= lo.length.n THEN Finished(Return(v))
    ELSE IF usesRegex(lo)
    THEN IF ~NewRegExp(lo.wordbreakregex.s).ok
         THEN Finished(regexFailure(lo.wordbreakregex.s))
         ELSE [pc |-> "regexloop", result |-> NoResult,
               separator |-> RegExpObject(lo.wordbreakregex.s),
               lastIndex |-> 0, lastMatch |-> -1]
    ELSE truncateTail(v, lo, -1, Undefined)

\* the do-while keeping the index of the first match it finds
truncateExecFirstMatch(v, o, li, lm, sep) ==
  LET lo == localOptions(o)
      m == RegExpExec(NewRegExp(lo.wordbreakregex.s).alts,
                      firstSliceStringNormalised(v, lo), li)
  IN IF m.matched
     THEN [pc |-> "regexloop", result |-> NoResult, separator |-> sep,
           lastIndex |-> m.lastIndex,
           lastMatch |-> IF lm = -1 THEN m.index ELSE lm]
     ELSE truncateTail(v, lo, lm, sep)

\* lines 687-690, one iteration of the do-while; when exec finds nothing the
\* loop ends and the call runs to its return
truncateExec(v, o, li, lm, sep) ==
  LET lo == localOptions(o)
      m == RegExpExec(NewRegExp(lo.wordbreakregex.s).alts,
                      firstSliceStringNormalised(v, lo), li)
  IN IF m.matched
     THEN [pc |-> "regexloop", result |-> NoResult, separator |-> sep,
           lastIndex |-> m.lastIndex, lastMatch |-> m.index]
     ELSE truncateTail(v, lo, lm, sep)

-----------------------------------------------------------------------------
(* The delegating adapters, lines 57-585.  A delegate library is a black   *)
(* box: the model records that it was invoked and gives it an abstract     *)
(* result; d says whether a fallible delegate returns or throws.           *)

Out(r, ds) == [result |-> r, delegates |-> ds]

Lib(name) == [t |-> "object", lib |-> name]   \* a value a delegate produced

validBasex == {<<"base2">>, <<"base10">>, <<"base16">>, <<"base32">>, <<"base36">>,
               <<"base58">>, <<"base62">>, <<"base64">>, <<"base64url">>}

\* the base parameter with its default, (value, base = 'base36')
baseOf(base) == IF TypeOf(base) = "undefined" THEN <<"base36">> ELSE base.s

ValidUuids == {Str(<<"1b49aa30-e719-11e6-9835-f723b46a2688">>),
               Str(<<"6ba7b810-9dad-11d1-80b4-00c04fd430c8">>)}

\* uuidvalidate(value)
uuidvalidate(v) == v \in ValidUuids

\* new UuidEncoder(base).encode(value): one short form per UUID and base
UuidEncode(v, base) == Str(base \o v.s)

\* new UuidEncoder(base).decode(value): the UUID of a short form of this base;
\* on anything else the decoder returns some other string or throws (d)
UuidDecode(v, base, d) ==
  IF TypeOf(v) = "string" /\ Len(v.s) = 2 /\ <<v.s[1]>> = base
  THEN Return(Str(<<v.s[2]>>))
  ELSE IF d = "throws" THEN Throw("DelegateError", "UuidEncoder.decode")
       ELSE Return(Str(<<"00000000-0000-0000-0000-000000000000">>))

htmltotext(v, options) ==
  IF TypeOf(v) = "undefined" THEN Out(Return(Undefined), <<>>)
  ELSE Out(Return(Lib(<<"convert">>)), <<"convert">>)

\* the UUID validated before the undefined check
shortenUuidValidatingFirst(v, base) ==
  IF ~uuidvalidate(v) THEN Out(Throw("Error", "Invalid UUID"), <<"uuidvalidate">>)
  ELSE IF TypeOf(v) = "undefined" THEN Out(Return(Undefined), <<>>)
  ELSE Out(Return(UuidEncode(v, baseOf(base))), <<"uuidvalidate", "UuidEncoder.encode">>)

\* the base checked before the UUID
shortenUuidBaseFirst(v, base) ==
  IF TypeOf(v) = "undefined" THEN Out(Return(Undefined), <<>>)
  ELSE IF baseOf(base) \notin validBasex
  THEN Out(Throw("Error", "Invalid basex. Valid values: ..."), <<>>)
  ELSE IF ~uuidvalidate(v) THEN Out(Throw("Error", "Invalid UUID"), <<"uuidvalidate">>)
  ELSE Out(Return(UuidEncode(v, baseOf(base))), <<"uuidvalidate", "UuidEncoder.encode">>)

shortenUuid(v, base) ==
  IF TypeOf(v) = "undefined" THEN Out(Return(Undefined), <<>>)
  ELSE IF ~uuidvalidate(v) THEN Out(Throw("Error", "Invalid UUID"), <<"uuidvalidate">>)
  ELSE IF baseOf(base) \notin validBasex
  THEN Out(Throw("Error", "Invalid basex. Valid values: ..."), <<"uuidvalidate">>)
  ELSE Out(Return(UuidEncode(v, baseOf(base))), <<"uuidvalidate", "UuidEncoder.encode">>)

encodeUuid(v, base) == shortenUuid(v, Str(baseOf(base)))

\* the decoder always built with the default base
unshortenUuidIgnoringBase(v, base, d) ==
  IF TypeOf(v) = "undefined" THEN Out(Return(Undefined), <<>>)
  ELSE IF baseOf(base) \notin validBasex
  THEN Out(Throw("Error", "Invalid basex. Valid values: ..."), <<>>)
  ELSE Out(UuidDecode(v, <<"base36">>, d), <<"UuidEncoder.decode">>)

\* the value handed to the decoder without a look at the base
unshortenUuidUnchecked(v, base, d) ==
  IF TypeOf(v) = "undefined" THEN Out(Return(Undefined), <<>>)
  ELSE Out(UuidDecode(v, baseOf(base), d), <<"UuidEncoder.decode">>)

unshortenUuid(v, base, d) ==
  IF TypeOf(v) = "undefined" THEN Out(Return(Undefined), <<>>)
  ELSE IF baseOf(base) \notin validBasex
  THEN Out(Throw("Error", "Invalid basex. Valid values: ..."), <<>>)
  ELSE Out(UuidDecode(v, baseOf(base), d), <<"UuidEncoder.decode">>)

decodeUuid(v, base, d) == unshortenUuid(v, Str(baseOf(base)), d)

\* new LanguageTag(value): invalid flag, language and region subtags
LanguageTag(v) ==
  CASE v = Str(<<"es">>) -> [invalid |-> FALSE, language |-> <<"es">>, region |-> Undefined]
    [] v = Str(<<"en-US">>) -> [invalid |-> FALSE, language |-> <<"en">>, region |-> Str(<<"US">>)]
    [] OTHER -> [invalid |-> TRUE, language |-> <<>>, region |-> Undefined]

\* countriesList.countries[langTag.region] looked up without the test for a
\* missing region subtag
languageInfoRegionLookup(v) ==
  IF TypeOf(v) = "undefined" THEN Out(Return(Undefined), <<>>)
  ELSE LET langTag == LanguageTag(v) IN
    IF langTag.invalid
    THEN Out(ThrowAbout("Error", "Invalid RFC5646 Tag. Value:", v), <<"LanguageTag">>)
    ELSE Out(Return(Obj([rfc5646 |-> v,
                         region |-> IF Truthy(langTag.region)
                                    THEN Lib(<<"countries", langTag.region.s>>)
                                    ELSE Undefined,
                         language |-> Lib(<<"languagesAll">> \o langTag.language)])),
             <<"LanguageTag", "countriesList">>)

languageInfo(v) ==
  IF TypeOf(v) = "undefined" THEN Out(Return(Undefined), <<>>)
  ELSE LET langTag == LanguageTag(v) IN
    IF langTag.invalid
    THEN Out(ThrowAbout("Error", "Invalid RFC5646 Tag. Value:", v), <<"LanguageTag">>)
    ELSE Out(Return(Obj([rfc5646 |-> v,
                         region |-> IF Truthy(langTag.region)
                                    THEN Lib(<<"countries", langTag.region.s>>)
                                    ELSE Null,
                         language |-> Lib(<<"languagesAll">> \o langTag.language)])),
             <<"LanguageTag", "countriesList">>)

ValidUrls == {Str(<<"https://example.com/p?q=1">>)}

parseUrl(v) ==
  IF TypeOf(v) = "undefined" THEN Out(Return(Undefined), <<>>)
  ELSE IF v \notin ValidUrls THEN Out(Throw("Error", "Invalid URL"), <<"URL">>)
  ELSE Out(Return(Lib(<<"urlParse">>)), <<"URL", "urlParse">>)

parsePath(v) ==
  IF TypeOf(v) = "undefined" THEN Out(Return(Undefined), <<>>)
  ELSE Out(Return(Lib(<<"path.parse">>)), <<"path.parse">>)

\* moment(...args) and momentDuration(...args) hand every call to momentjs
moment(v, a) == Out(Return(Lib(<<"momentjs">>)), <<"momentjs">>)

momentDuration(v, a) == Out(Return(Lib(<<"momentjs.duration">>)), <<"momentjs.duration">>)

BadTemplates == {Str(<<"{{#name}}">>)}

\* an undefined template answered with undefined, like an undefined value
mustacheUndefinedForNoTemplate(v, template) ==
  IF TypeOf(v) = "undefined" THEN Out(Return(Undefined), <<>>)
  ELSE IF TypeOf(template) = "undefined" THEN Out(Return(Undefined), <<>>)
  ELSE IF template \in BadTemplates
  THEN Out(Throw("DelegateError", "Mustache.render"), <<"Mustache.render">>)
  ELSE Out(Return(Lib(<<"Mustache.render">>)), <<"Mustache.render">>)

\* Mustache.render throws on a template it cannot parse
mustache(v, template) ==
  IF TypeOf(v) = "undefined" THEN Out(Return(Undefined), <<>>)
  ELSE IF TypeOf(template) = "undefined" THEN Out(Return(v), <<>>)
  ELSE IF template \in BadTemplates
  THEN Out(Throw("DelegateError", "Mustache.render"), <<"Mustache.render">>)
  ELSE Out(Return(Lib(<<"Mustache.render">>)), <<"Mustache.render">>)

unicodeToASCII(v, options) ==
  IF TypeOf(v) = "undefined" THEN Out(Return(Undefined), <<>>)
  ELSE IF options.t = "object" /\ TypeOf(options.o.replacement) # "undefined"
  THEN Out(Return(Lib(<<"foldReplacing">>)), <<"ASCIIFolder.foldReplacing">>)
  ELSE Out(Return(Lib(<<"foldMaintaining">>)), <<"ASCIIFolder.foldMaintaining">>)

-----------------------------------------------------------------------------
(* registerWithJSONATA(expression), lines 724-785, and jsonataExtended *)

Function == [t |-> "function"]

\* the expression objects a caller hands over: undefined, null, {}, an object
\* whose registerFunction is not a function, and a JSONata expression
Hosts == {Undefined, Null, Obj([registerFunction |-> Absent]),
          Obj([registerFunction |-> Num(1)]), Obj([registerFunction |-> Function])}

Reg(name, signature) == [name |-> name, signature |-> signature]

\* encodeUuid bound under the name of shortenUuid
RegistrationsDuplicate ==
  << Reg("htmltotext", "<s?o?:s>"), Reg("shortenUuid", "<s?s?:s>"),
     Reg("unshortenUuid", "<s?s?:s>"), Reg("shortenUuid", "<s?s?:s>"),
     Reg("decodeUuid", "<s?s?:s>"), Reg("truncate", "<s?o?:s>"),
     Reg("languageInfo", "<s?:o>"), Reg("parseUrl", "<s?:o>"),
     Reg("parsePath", "<s?:o>"), Reg("moment", "<(sna)?(sa)?(sb)?b?:o>"),
     Reg("momentDuration", "<(sno)?s?:o>"), Reg("mustache", "<o?s?:s>"),
     Reg("unicodeToASCII", "<s?o?:s>") >>

\* the last registerFunction call left out
RegistrationsShort ==
  << Reg("htmltotext", "<s?o?:s>"), Reg("shortenUuid", "<s?s?:s>"),
     Reg("unshortenUuid", "<s?s?:s>"), Reg("encodeUuid", "<s?s?:s>"),
     Reg("decodeUuid", "<s?s?:s>"), Reg("truncate", "<s?o?:s>"),
     Reg("languageInfo", "<s?:o>"), Reg("parseUrl", "<s?:o>"),
     Reg("parsePath", "<s?:o>"), Reg("moment", "<(sna)?(sa)?(sb)?b?:o>"),
     Reg("momentDuration", "<(sno)?s?:o>"), Reg("mustache", "<o?s?:s>") >>

\* the expression.registerFunction calls of lines 728-784, in order
Registrations ==
  << Reg("htmltotext", "<s?o?:s>"), Reg("shortenUuid", "<s?s?:s>"),
     Reg("unshortenUuid", "<s?s?:s>"), Reg("encodeUuid", "<s?s?:s>"),
     Reg("decodeUuid", "<s?s?:s>"), Reg("truncate", "<s?o?:s>"),
     Reg("languageInfo", "<s?:o>"), Reg("parseUrl", "<s?:o>"),
     Reg("parsePath", "<s?:o>"), Reg("moment", "<(sna)?(sa)?(sb)?b?:o>"),
     Reg("momentDuration", "<(sno)?s?:o>"), Reg("mustache", "<o?s?:s>"),
     Reg("unicodeToASCII", "<s?o?:s>") >>

\* what registerWithJSONATA(expression) throws or returns, and the bindings of
\* the host afterwards, b being its bindings before
registerWithJSONATA(expression, b) ==
  IF TypeOf(expression) = "undefined"
  THEN [result |-> Throw("TypeError", "Invalid JSONata Expression"), bound |-> b]
  ELSE IF expression.t = "null"
  THEN [result |-> Throw("TypeError", "Cannot read properties of null"), bound |-> b]
  ELSE IF TypeOf(expression.o.registerFunction) = "undefined"
  THEN [result |-> Throw("TypeError", "Invalid JSONata Expression"), bound |-> b]
  ELSE IF expression.o.registerFunction.t # "function"
  THEN [result |-> Throw("TypeError", "expression.registerFunction is not a function"),
        bound |-> b]
  ELSE [result |-> Return(Undefined), bound |-> b \o Registrations]

ValidHost == Obj([registerFunction |-> Function])

IsBound(name) == host = ValidHost /\ \E i \in DOMAIN bound : bound[i].name = name

-----------------------------------------------------------------------------
(* Inputs *)

\* strings of one codepoint more than the default length: letters only, and
\* an astral character followed by letters
LongValues ==
  {Str([i \in 1..(DefaultLength + 1) |-> "a"]),
   Str(<<"H", "L">> \o [i \in 1..DefaultLength |-> "a"])}

Digits(n) == [i \in 1..n |-> <<"1", "2", "3", "4", "5", "6", "7", "8", "9", "0">>[((i - 1) % 10) + 1]]

\* the input of the JSDoc examples: '1234567890123456 , 789012345678901234567890'
ExampleValue ==
  Str(Digits(16) \o <<" ", ",", " ">> \o [i \in 1..24 |-> Digits(30)[i + 6]])

\* the truncate inputs: undefined, every string of at most MaxValueLen units
\* and the long strings
TruncateValues ==
  {Undefined} \cup {Str(s) : s \in Strings(MaxValueLen)} \cup LongValues
  \cup {ExampleValue}

\* the truncate inputs of the registry specification
DispatchValues == {Undefined, Str(<<>>), Str(<<"a">>), Str(<<"H", "L">>),
                   Str(<<"a", " ">>)}

Wordbreaks == {Absent, Str(<<" ">>), Str(<<"a", " ">>), Str(<<"H", "L">>)}

Opt(len, om, wb, rx) ==
  Obj([length |-> len, omission |-> om, wordbreak |-> wb, wordbreakregex |-> rx])

\* options whose fields all have the documented types
CoreOptions ==
  {Opt(Num(n), om, wb, rx) :
     n \in 0..MaxLength, om \in {Absent, Str(<<>>), Str(<<".">>)},
     wb \in Wordbreaks, rx \in {Absent} \cup {Str(r) : r \in RegExpSources}}

\* an omission of one or two codepoints outside the Basic Multilingual Plane
AstralOmissionOptions ==
  {Opt(Num(n), Str(om), Absent, Absent) :
     n \in 0..MaxLength, om \in {<<"H", "L">>, <<"H", "L", "H", "L">>}}

\* no options object, or one without length
DefaultOptions ==
  {Undefined} \cup
  {Opt(Absent, om, wb, rx) : om \in {Absent, Str(<<".">>)},
     wb \in {Absent, Str(<<" ">>)}, rx \in {Absent, Str(RxSpace)}}

\* one field of the wrong type, or of the right type and falsy
OddOptions ==
  {Opt(x, Str(<<".">>), Absent, Absent) : x \in {Str(<<"a">>), Undefined, Null}} \cup
  {Opt(Num(1), x, Absent, Absent) : x \in {Num(0), Undefined, Null}} \cup
  {Opt(Num(1), Str(<<".">>), x, Absent) :
     x \in {Num(0), Num(1), Null, Bool(FALSE), Bool(TRUE), Str(<<>>)}} \cup
  {Opt(Num(1), Str(<<".">>), Absent, x) :
     x \in {Num(0), Num(1), Null, Bool(FALSE), Bool(TRUE), Str(<<>>)}}

\* a second pattern the RegExp constructor rejects
UnclosedRegexOptions ==
  {Opt(Num(n), Str(<<>>), Absent, Str(RxUnclosed)) : n \in 0..MaxLength}

\* the options of the JSDoc examples: length 20 and omission '...' with the
\* wordbreakregex of the one and the wordbreak of the other
ExampleOptions ==
  {Opt(Num(20), Str(DefaultOmission), Absent, Str(RxBreaks)),
   Opt(Num(20), Str(DefaultOmission), Str(<<" ">>), Absent)}

TruncateOptions == CoreOptions \cup AstralOmissionOptions \cup DefaultOptions
                   \cup OddOptions \cup UnclosedRegexOptions \cup ExampleOptions

\* no base, each supported base and a supported name in the wrong case
Bases == {Undefined, Str(<<"BASE36">>)} \cup {Str(b) : b \in validBasex}

UuidValues == {Undefined, Str(<<"not-a-uuid">>)} \cup ValidUuids

ShortValues ==
  {Undefined, Str(<<"???">>)} \cup
  {UuidEncode(u, b) : u \in ValidUuids, b \in validBasex}

-----------------------------------------------------------------------------
(* State machine *)

Idle ==
  /\ fn = "none" /\ value = Undefined /\ arg2 = Undefined /\ pc = "idle"
  /\ separator = Undefined /\ lastIndex = 0 /\ lastMatch = -1
  /\ result = NoResult /\ delegates = <<>>

\* nothing has been constructed yet
Init ==
  /\ host = Absent /\ bound = <<>> /\ regCalls = 0
  /\ regResult = [op |-> "none", result |-> NoResult]
  /\ Idle

\* the state jsonataExtended(expr) leaves behind
InitTruncate ==
  /\ host = ValidHost
  /\ bound = registerWithJSONATA(ValidHost, <<>>).bound
  /\ regCalls = 1
  /\ regResult = [op |-> "jsonataExtended", result |-> Return(ValidHost)]
  /\ Idle

\* registerWithJSONATA(h) on a fresh object or on the host already in use
Register(h) ==
  /\ pc = "idle"
  /\ host \in {Absent, h}
  /\ regCalls < MaxRegistrations
  /\ host' = h
  /\ regCalls' = regCalls + 1
  /\ regResult' = [op |-> "registerWithJSONATA",
                   result |-> registerWithJSONATA(h, bound).result]
  /\ bound' = registerWithJSONATA(h, bound).bound
  /\ UNCHANGED <<fn, value, arg2, pc, separator, lastIndex, lastMatch, result,
                 delegates>>

\* the engine's expression returned without the registerWithJSONATA call
JsonataExtendedUnregistered(parses) ==
  /\ pc = "idle"
  /\ IF parses
     THEN /\ host' = ValidHost
          /\ bound' = <<>>
          /\ regCalls' = 1
          /\ regResult' = [op |-> "jsonataExtended", result |-> Return(ValidHost)]
     ELSE /\ regResult' = [op |-> "jsonataExtended",
                           result |-> Throw("JSONataError", "syntax error")]
          /\ UNCHANGED <<host, bound, regCalls>>
  /\ UNCHANGED <<fn, value, arg2, pc, separator, lastIndex, lastMatch, result,
                 delegates>>

\* jsonataExtended(expr, options): jsonataOriginal either throws on expr or
\* returns a new expression object, which is registered and returned
JsonataExtended(parses) ==
  /\ pc = "idle"
  /\ IF parses
     THEN /\ host' = ValidHost
          /\ bound' = registerWithJSONATA(ValidHost, <<>>).bound
          /\ regCalls' = 1
          /\ regResult' =
               [op |-> "jsonataExtended",
                result |-> IF registerWithJSONATA(ValidHost, <<>>).result.kind = "throw"
                           THEN registerWithJSONATA(ValidHost, <<>>).result
                           ELSE Return(ValidHost)]
     ELSE /\ regResult' = [op |-> "jsonataExtended",
                           result |-> Throw("JSONataError", "syntax error")]
          /\ UNCHANGED <<host, bound, regCalls>>
  /\ UNCHANGED <<fn, value, arg2, pc, separator, lastIndex, lastMatch, result,
                 delegates>>

\* the host calls a bound adapter, which runs to its return or throw
Dispatch(name, v, a, out) ==
  /\ pc = "idle"
  /\ IsBound(name)
  /\ fn' = name /\ value' = v /\ arg2' = a
  /\ result' = out.result /\ delegates' = out.delegates
  /\ pc' = "done"
  /\ UNCHANGED <<host, bound, regCalls, regResult, separator, lastIndex, lastMatch>>

CallHtmltotext ==
  \E v \in {Undefined, Str(<<"a">>)} : Dispatch("htmltotext", v, Undefined, htmltotext(v, Undefined))

CallShortenUuid ==
  \E v \in UuidValues, b \in Bases : Dispatch("shortenUuid", v, b, shortenUuid(v, b))

CallEncodeUuid ==
  \E v \in UuidValues, b \in Bases : Dispatch("encodeUuid", v, b, encodeUuid(v, b))

CallUnshortenUuid ==
  \E v \in ShortValues, b \in Bases, d \in {"returns", "throws"} :
    Dispatch("unshortenUuid", v, b, unshortenUuid(v, b, d))

CallDecodeUuid ==
  \E v \in ShortValues, b \in Bases, d \in {"returns", "throws"} :
    Dispatch("decodeUuid", v, b, decodeUuid(v, b, d))

CallLanguageInfo ==
  \E v \in {Undefined, Str(<<"es">>), Str(<<"en-US">>), Str(<<"not-valid-tag!!">>)} :
    Dispatch("languageInfo", v, Undefined, languageInfo(v))

CallParseUrl ==
  \E v \in {Undefined, Str(<<"not a url">>)} \cup ValidUrls :
    Dispatch("parseUrl", v, Undefined, parseUrl(v))

CallParsePath ==
  \E v \in {Undefined, Str(<<"/p/a/t/page.html">>)} :
    Dispatch("parsePath", v, Undefined, parsePath(v))

CallMoment ==
  \E v \in {Undefined, Str(<<"2017-02-02T15:49:06Z">>)}, a \in {Undefined, Str(<<"YYYY">>)} :
    Dispatch("moment", v, a, moment(v, a))

CallMomentDuration ==
  \E v \in {Undefined, Str(<<"PT1H2M10S">>)}, a \in {Undefined, Str(<<"hours">>)} :
    Dispatch("momentDuration", v, a, momentDuration(v, a))

CallMustache ==
  \E v \in {Undefined, Obj([name |-> Str(<<"a">>)])},
     t \in {Undefined, Str(<<"{{name}}">>)} \cup BadTemplates :
    Dispatch("mustache", v, t, mustache(v, t))

CallUnicodeToASCII ==
  \E v \in {Undefined, Str(<<"a">>)},
     o \in {Undefined, Obj([replacement |-> Absent]), Obj([replacement |-> Str(<<>>)])} :
    Dispatch("unicodeToASCII", v, o, unicodeToASCII(v, o))

\* the host calls truncate(v, o): the call runs to its return or throw, or
\* into the do-while that looks for the last wordbreakregex match
TruncateCall(v, o) ==
  /\ IsBound("truncate")
  /\ fn' = "truncate" /\ value' = v /\ arg2' = o
  /\ pc' = truncateEnter(v, o).pc
  /\ result' = truncateEnter(v, o).result
  /\ separator' = truncateEnter(v, o).separator
  /\ lastIndex' = truncateEnter(v, o).lastIndex
  /\ lastMatch' = truncateEnter(v, o).lastMatch
  /\ delegates' = <<>>
  /\ UNCHANGED <<host, bound, regCalls, regResult>>

\* the merged options written back into the object the caller passed
TruncateExecWritingOptions ==
  /\ pc = "regexloop"
  /\ LET step == truncateExec(value, arg2, lastIndex, lastMatch, separator)
     IN /\ pc' = step.pc
        /\ result' = step.result
        /\ separator' = step.separator
        /\ lastIndex' = step.lastIndex
        /\ lastMatch' = step.lastMatch
  /\ arg2' = Obj(localOptions(arg2))
  /\ UNCHANGED <<host, bound, regCalls, regResult, fn, value, delegates>>

\* one iteration of the do-while of lines 687-690
TruncateExec ==
  /\ pc = "regexloop"
  /\ LET step == truncateExec(value, arg2, lastIndex, lastMatch, separator)
     IN /\ pc' = step.pc
        /\ result' = step.result
        /\ separator' = step.separator
        /\ lastIndex' = step.lastIndex
        /\ lastMatch' = step.lastMatch
  /\ UNCHANGED <<host, bound, regCalls, regResult, fn, value, arg2, delegates>>

\* the caller takes the result; the next call starts from a clean frame
Finish ==
  /\ pc = "done"
  /\ fn' = "none" /\ value' = Undefined /\ arg2' = Undefined /\ pc' = "idle"
  /\ separator' = Undefined /\ lastIndex' = 0 /\ lastMatch' = -1
  /\ result' = NoResult /\ delegates' = <<>>
  /\ UNCHANGED <<host, bound, regCalls, regResult>>

CallTruncateDispatch ==
  pc = "idle" /\ \E v \in DispatchValues, o \in TruncateOptions : TruncateCall(v, o)

CallTruncate ==
  pc = "idle" /\ \E v \in TruncateValues, o \in TruncateOptions : TruncateCall(v, o)

CallRegister == \E h \in Hosts : Register(h)

CallJsonataExtended == \E parses \in BOOLEAN : JsonataExtended(parses)

Next ==
  \/ CallRegister
  \/ CallJsonataExtended
  \/ CallHtmltotext
  \/ CallShortenUuid
  \/ CallEncodeUuid
  \/ CallUnshortenUuid
  \/ CallDecodeUuid
  \/ CallLanguageInfo
  \/ CallParseUrl
  \/ CallParsePath
  \/ CallMoment
  \/ CallMomentDuration
  \/ CallMustache
  \/ CallUnicodeToASCII
  \/ CallTruncateDispatch
  \/ TruncateExec
  \/ Finish

\* registration and dispatch of every adapter
Spec == Init /\ [][Next]_vars

NextTruncate == CallTruncate \/ TruncateExec \/ Finish

\* truncate on a registered host, over every input of the bounds
SpecTruncate == InitTruncate /\ [][NextTruncate]_vars

NextTruncateDispatch == CallTruncateDispatch \/ TruncateExec \/ Finish

\* truncate called through its binding; the engine runs a call it has
\* started: the do-while keeps iterating and a finished call hands over its
\* result
SpecTruncateFair ==
  /\ InitTruncate /\ [][NextTruncateDispatch]_vars
  /\ WF_vars(TruncateExec) /\ WF_vars(Finish)

-----------------------------------------------------------------------------
(* Properties *)

CodepointCount(s) == Len(Spread(s))

\* a truncate call on a string has returned
TruncateReturned ==
  /\ pc = "done" /\ fn = "truncate"
  /\ TypeOf(value) = "string" /\ result.kind = "return"

\* ... and the input had more codepoints than options.length
Shortened ==
  /\ TruncateReturned
  /\ CodepointCount(value.s) > localOptions(arg2).length.n

\* the first k codepoints of the input, as a string
Prefix(k) == Join(SubSeq(Spread(value.s), 1, k))

Omission == localOptions(arg2).omission.s

\* the merged options have the types the data model gives them
WellTyped(lo) ==
  /\ TypeOf(lo.length) = "number"
  /\ TypeOf(lo.omission) = "string"
  /\ TypeOf(lo.wordbreak) \in {"undefined", "string"}
  /\ TypeOf(lo.wordbreakregex) \in {"undefined", "string"}

\* C1: whenever truncate shortens its input, the result has at most
\* options.length codepoints, also when options.length is smaller than the
\* codepoint count of omission.
C1_LengthBound ==
  Shortened => CodepointCount(result.val.s) <= localOptions(arg2).length.n

\* C2: the string truncate returns never has more codepoints than its input.
C2_NeverLonger ==
  TruncateReturned => CodepointCount(result.val.s) <= CodepointCount(value.s)

\* C3: a string whose codepoint count is at most options.length is returned
\* exactly, with no omission marker, whatever the omission, wordbreak and
\* wordbreakregex strings are.
C3_Idempotent ==
  ( /\ pc = "done" /\ fn = "truncate" /\ TypeOf(value) = "string"
    /\ WellTyped(localOptions(arg2))
    /\ CodepointCount(value.s) <= localOptions(arg2).length.n )
  => result = Return(value)

\* an astral character (two code units, one codepoint) with length 1 and a
\* wordbreakregex that does not compile
C3_Witness ==
  /\ pc = "done" /\ fn = "truncate"
  /\ value = Str(<<"H", "L">>)
  /\ localOptions(arg2).length = Num(1)
  /\ localOptions(arg2).wordbreakregex = Str(RxBad)
  /\ localOptions(arg2).wordbreak = Str(<<" ">>)
  /\ result = Return(value)

\* C4: whenever truncate shortens its input, the result is a prefix of the
\* input's codepoint sequence followed by omission; the prefix never ends
\* inside a surrogate pair, also when the cut comes from a regex match index.
C4_PrefixThenOmission ==
  Shortened =>
    \E k \in 0..CodepointCount(value.s) : result.val.s = Prefix(k) \o Omission

\* the regex matched behind an astral character and the cut is at its index
C4_Witness ==
  /\ Shortened
  /\ value = Str(<<"H", "L", " ", "a">>)
  /\ localOptions(arg2).wordbreakregex = Str(RxSpace)
  /\ lastMatch = 1
  /\ result = Return(Str(<<"H", "L">>))

\* C5 as stated: every bound function called with its first argument
\* undefined returns undefined and invokes no delegate.
C5_AllPropagateUndefined ==
  (pc = "done" /\ TypeOf(value) = "undefined")
  => (result = Return(Undefined) /\ delegates = <<>>)

\* C5 amended: every bound function other than moment and momentDuration,
\* called with its first argument undefined, returns undefined and invokes no
\* delegate, whatever its other arguments are.
C5_UndefinedPropagation ==
  (pc = "done" /\ TypeOf(value) = "undefined"
   /\ fn \notin {"moment", "momentDuration"})
  => (result = Return(Undefined) /\ delegates = <<>>)

\* truncate(undefined, {length: "a", ...}) has returned undefined
C5_Witness ==
  /\ pc = "done" /\ fn = "truncate" /\ value = Undefined
  /\ arg2 = Opt(Str(<<"a">>), Str(<<".">>), Absent, Absent)
  /\ result = Return(Undefined)

\* the names registerWithJSONATA is documented to bind
FunctionNames ==
  {"htmltotext", "shortenUuid", "unshortenUuid", "encodeUuid", "decodeUuid",
   "truncate", "languageInfo", "parseUrl", "parsePath", "moment",
   "momentDuration", "mustache", "unicodeToASCII"}

BoundNames == {bound[i].name : i \in DOMAIN bound}

LastRegister == regResult.op = "registerWithJSONATA"

\* C6: registerWithJSONATA(undefined) and registerWithJSONATA({}) fail with
\* the same 'Invalid JSONata Expression' error; one call on a valid host
\* returns nothing and calls registerFunction exactly once per function name.
C6_RegistrationGuard ==
  /\ (LastRegister /\ host \in {Undefined, Obj([registerFunction |-> Absent])})
     => regResult.result = Throw("TypeError", "Invalid JSONata Expression")
  /\ (LastRegister /\ host = ValidHost /\ regCalls = 1)
     => /\ regResult.result = Return(Undefined)
        /\ \A n \in FunctionNames :
             Cardinality({i \in DOMAIN bound : bound[i].name = n}) = 1
        /\ \A i, j \in DOMAIN bound : bound[i].name = bound[j].name => i = j

\* one registerWithJSONATA call on a valid host has returned
C6_Witness ==
  /\ LastRegister /\ host = ValidHost /\ regCalls = 1
  /\ regResult.result = Return(Undefined)
  /\ Len(bound) = Cardinality(FunctionNames)

\* C7: for a host that is undefined or null, or whose registerFunction is
\* missing or not callable, registerWithJSONATA fails with the
\* 'Invalid JSONata Expression' error and nothing has been bound.
C7_InvalidHost ==
  (LastRegister /\ host \in Hosts \ {ValidHost})
  => /\ regResult.result = Throw("TypeError", "Invalid JSONata Expression")
     /\ bound = <<>>

\* the same name is always bound with the same signature
FixedSignatures ==
  \A i, j \in DOMAIN bound :
    bound[i].name = bound[j].name => bound[i].signature = bound[j].signature

\* C8 as stated: after one successful registerWithJSONATA call between nine
\* and twelve distinct names are bound, each with a fixed signature.
C8_NineToTwelve ==
  (host = ValidHost /\ regCalls = 1)
  => (Cardinality(BoundNames) \in 9..12 /\ FixedSignatures)

\* C8 amended: after a successful registerWithJSONATA call exactly thirteen
\* distinct names are bound on the host, each with a fixed signature.
C8_ThirteenNames ==
  (host = ValidHost /\ regCalls >= 1)
  => (Cardinality(BoundNames) = 13 /\ FixedSignatures)

\* one registration has been made on a valid host and thirteen names are bound
C8_Witness ==
  /\ host = ValidHost /\ regCalls = 1
  /\ Cardinality(BoundNames) = 13 /\ FixedSignatures

\* the 0-based indexes of s at which the pattern compiled from source matches
RegexHits(source, s) ==
  {i \in 0..Len(s) :
     \E j \in 1..Len(NewRegExp(source).alts) : MatchAt(NewRegExp(source).alts[j], s, i)}

NonEmptyString(x) == TypeOf(x) = "string" /\ x.s # <<>>

\* the indexes at which the supplied wordbreakregex matches in the
\* surrogate-normalised candidate prefix of the current call
PrefixHits ==
  RegexHits(localOptions(arg2).wordbreakregex.s,
            firstSliceStringNormalised(value, localOptions(arg2)))

\* C9: when both wordbreak and wordbreakregex are supplied and the regex
\* matches inside the candidate prefix, the cut is at a regex match, wherever
\* the literal wordbreak occurs; the literal cut is only taken when the regex
\* has no match.
C9_RegexPrecedence ==
  ( /\ Shortened
    /\ NonEmptyString(localOptions(arg2).wordbreak)
    /\ NonEmptyString(localOptions(arg2).wordbreakregex)
    /\ PrefixHits # {} )
  => \E i \in PrefixHits : result.val.s = Prefix(i) \o Omission

\* the regex matches at index 0, the literal wordbreak occurs behind it at
\* index 1, and the cut is at index 0
C9_Witness ==
  /\ Shortened
  /\ value = Str(<<" ", "H", "L", "a">>)
  /\ localOptions(arg2).wordbreak = Str(<<"H", "L">>)
  /\ localOptions(arg2).wordbreakregex = Str(RxSpace)
  /\ localOptions(arg2).length = Num(2)
  /\ ArrayLastIndexOf(firstSlice(value, localOptions(arg2)), <<"H", "L">>) = 1
  /\ PrefixHits = {0}
  /\ result = Return(Str(Omission))

\* the last 0-based position at which the codepoints w occur in arr, or -1
LastOccurrence(arr, w) ==
  LET hits == {i \in 0..(Len(arr) - Len(w)) : SubSeq(arr, i + 1, i + Len(w)) = w}
  IN IF hits = {} THEN -1 ELSE CHOOSE i \in hits : \A j \in hits : j <= i

\* C10: when truncate shortens its input, wordbreak is a non-empty string of
\* one or several codepoints and no regex match was found, the prefix is cut
\* at the last occurrence of the whole wordbreak string inside the first
\* (length - codepointCount(omission)) codepoints.
C10_LiteralWordbreak ==
  ( /\ Shortened
    /\ NonEmptyString(localOptions(arg2).wordbreak)
    /\ localOptions(arg2).length.n >= CodepointCount(Omission)
    /\ (NonEmptyString(localOptions(arg2).wordbreakregex) => PrefixHits = {}) )
  => LET window == SubSeq(Spread(value.s), 1,
                          localOptions(arg2).length.n - CodepointCount(Omission))
         at == LastOccurrence(window, Spread(localOptions(arg2).wordbreak.s))
     IN result.val.s = (IF at >= 0 THEN Prefix(at) ELSE Join(window)) \o Omission

\* the largest element of a non-empty set of integers
Largest(S) == CHOOSE i \in S : \A j \in S : j <= i

\* C11: when truncate shortens its input and wordbreakregex is supplied, the
\* cut is at the start index of the last match of the pattern inside the
\* candidate prefix, a match at index 0 being the last one gives omission
\* alone, and a pattern without a match in the prefix (no literal wordbreak
\* being supplied) leaves the full candidate prefix.
C11_RegexLastMatch ==
  (Shortened /\ NonEmptyString(localOptions(arg2).wordbreakregex))
  => /\ PrefixHits # {} => result.val.s = Prefix(Largest(PrefixHits)) \o Omission
     /\ (PrefixHits # {} /\ Largest(PrefixHits) = 0) => result.val.s = Omission
     /\ (PrefixHits = {} /\ ~Truthy(localOptions(arg2).wordbreak))
        => result.val.s = firstSliceString(value, localOptions(arg2)) \o Omission

\* the pattern matches at indexes 0 and 1 of the prefix and the cut is at 1
C11_Witness ==
  /\ Shortened
  /\ value = Str(<<" ", " ", "a">>)
  /\ localOptions(arg2).wordbreakregex = Str(RxSpace)
  /\ localOptions(arg2).length = Num(2)
  /\ PrefixHits = {0, 1}
  /\ result = Return(Str(<<" ">>))

\* the option fields whose merged value does not have the documented type; a
\* wordbreak or wordbreakregex that is undefined counts as not supplied
OffendingFields(lo) ==
  (IF TypeOf(lo.length) # "number" THEN {"length"} ELSE {}) \cup
  (IF TypeOf(lo.omission) # "string" THEN {"omission"} ELSE {}) \cup
  (IF TypeOf(lo.wordbreak) \notin {"undefined", "string"} THEN {"wordbreak"} ELSE {})
  \cup
  (IF TypeOf(lo.wordbreakregex) \notin {"undefined", "string"}
   THEN {"wordbreakregex"} ELSE {})

FieldValue(lo, f) ==
  CASE f = "length" -> lo.length
    [] f = "omission" -> lo.omission
    [] f = "wordbreak" -> lo.wordbreak
    [] OTHER -> lo.wordbreakregex

\* C12: for every defined input value, truncate fails with a TypeError naming
\* the field, its received value and its received type whenever the merged
\* options have a non-number length, a non-string omission, or a wordbreak or
\* wordbreakregex that is present but not a string, falsy ones included.
C12_OptionValidation ==
  ( /\ pc = "done" /\ fn = "truncate" /\ TypeOf(value) # "undefined"
    /\ OffendingFields(localOptions(arg2)) # {} )
  => /\ result.kind = "throw"
     /\ result.class = "TypeError"
     /\ \E f \in OffendingFields(localOptions(arg2)) :
          result.about = [field |-> "options." \o f,
                          received |-> FieldValue(localOptions(arg2), f),
                          type |-> TypeOf(FieldValue(localOptions(arg2), f))]

\* the caller's options object has the field f
Supplied(f) == arg2.t = "object" /\ arg2.o[f].t # "absent"

\* the length and omission in force when supplied fields override the
\* defaults 30 and '...'
EffectiveLength == IF Supplied("length") THEN arg2.o.length.n ELSE 30

EffectiveOmission == IF Supplied("omission") THEN arg2.o.omission.s ELSE <<".", ".", ".">>

\* C13: a field the caller supplies overrides the default and a field the
\* caller leaves out keeps it (length 30, omission '...'): the input is
\* returned unchanged up to the length in force, a shortened result ends with
\* the omission in force, and truncate(s) without options on a string of more
\* than 30 codepoints returns its first 27 codepoints followed by '...'.
C13_DefaultMerging ==
  ( /\ pc = "done" /\ fn = "truncate" /\ TypeOf(value) = "string"
    /\ result.kind = "return"
    /\ Supplied("length") => arg2.o.length.t = "number"
    /\ Supplied("omission") => arg2.o.omission.t = "string" )
  => /\ CodepointCount(value.s) <= EffectiveLength => result = Return(value)
     /\ CodepointCount(value.s) > EffectiveLength
        => \E k \in 0..CodepointCount(value.s) :
             result.val.s = Prefix(k) \o EffectiveOmission
     /\ (arg2 = Undefined /\ CodepointCount(value.s) > 30)
        => result.val.s = Prefix(27) \o <<".", ".", ".">>

\* truncate(s) on an astral character followed by thirty letters has returned
\* the astral character, twenty-six letters and '...'
C13_Witness ==
  /\ pc = "done" /\ fn = "truncate" /\ arg2 = Undefined
  /\ value = Str(<<"H", "L">> \o [i \in 1..30 |-> "a"])
  /\ result = Return(Str(<<"H", "L">> \o [i \in 1..26 |-> "a"] \o <<".", ".", ".">>))

\* the wordbreakregex of the current call is a source that does not compile
BadRegexSupplied ==
  /\ pc = "done" /\ fn = "truncate" /\ TypeOf(value) = "string"
  /\ WellTyped(localOptions(arg2))
  /\ TypeOf(localOptions(arg2).wordbreakregex) = "string"
  /\ localOptions(arg2).wordbreakregex.s \in {RxBad, RxUnclosed}

\* C14 as stated: a wordbreakregex that fails to compile makes truncate fail
\* with a generic Error whose message does not depend on the regex error.
C14_BadRegexAlwaysFails ==
  BadRegexSupplied => result = Throw("Error", "Error Processing workdbreakregex.")

\* C14 amended: when the input has more codepoints than options.length, a
\* wordbreakregex that fails to compile makes truncate fail with a generic
\* Error (not a TypeError) with one fixed message, and nothing is returned;
\* an input of at most options.length codepoints is returned unchanged and
\* the pattern is never compiled.
C14_BadRegexFails ==
  BadRegexSupplied =>
    IF CodepointCount(value.s) > localOptions(arg2).length.n
    THEN result = Throw("Error", "Error Processing workdbreakregex.")
    ELSE result = Return(value)

\* truncate("a ", {length: 1, omission: "", wordbreakregex: "("}) has thrown
C14_Witness ==
  /\ BadRegexSupplied
  /\ value = Str(<<"a", " ">>)
  /\ localOptions(arg2).wordbreakregex = Str(RxUnclosed)
  /\ localOptions(arg2).length = Num(1)
  /\ result.kind = "throw" /\ result.class = "Error"

UuidFunctions == {"shortenUuid", "encodeUuid", "unshortenUuid", "decodeUuid"}

\* the nine base names the UUID functions accept
SupportedBases ==
  {<<"base2">>, <<"base10">>, <<"base16">>, <<"base32">>, <<"base36">>, <<"base58">>,
   <<"base62">>, <<"base64">>, <<"base64url">>}

\* the UUID encoder delegate was not invoked by the current call
EncoderNotInvoked ==
  \A i \in DOMAIN delegates :
    delegates[i] \notin {"UuidEncoder.encode", "UuidEncoder.decode"}

\* a UUID function was called with a defined value and an unsupported base;
\* shortenUuid and encodeUuid validate the UUID first, so theirs is valid
UnsupportedBaseCall ==
  /\ pc = "done" /\ fn \in UuidFunctions
  /\ TypeOf(value) # "undefined"
  /\ TypeOf(arg2) = "string" /\ arg2.s \notin SupportedBases
  /\ fn \in {"shortenUuid", "encodeUuid"} => uuidvalidate(value)

\* C15 as stated: an unsupported base name passed to one of the four UUID
\* functions fails with a TypeError-class error raised before the UUID
\* encoder delegate is invoked.
C15_UnsupportedBaseTypeError ==
  UnsupportedBaseCall
  => (result.kind = "throw" /\ result.class = "TypeError" /\ EncoderNotInvoked)

\* C15 amended: the failure is a plain Error with the 'Invalid basex' message,
\* raised before the UUID encoder delegate is invoked.
C15_UnsupportedBase ==
  UnsupportedBaseCall
  => (result = Throw("Error", "Invalid basex. Valid values: ...") /\ EncoderNotInvoked)

\* unshortenUuid of a short form with the base name in upper case has thrown
C15_Witness ==
  /\ UnsupportedBaseCall
  /\ fn = "unshortenUuid" /\ arg2 = Str(<<"BASE36">>)
  /\ value \in ShortValues
  /\ result.kind = "throw" /\ delegates = <<>>

\* C16: shortenUuid and encodeUuid called with a defined value the UUID
\* validator rejects fail with the message 'Invalid UUID' for every base
\* argument, an unsupported one included, and never invoke the encoder.
C16_InvalidUuid ==
  ( /\ pc = "done" /\ fn \in {"shortenUuid", "encodeUuid"}
    /\ TypeOf(value) # "undefined" /\ value \notin ValidUuids )
  => /\ result.kind = "throw" /\ result.msg = "Invalid UUID"
     /\ EncoderNotInvoked

\* encodeUuid("not-a-uuid", "BASE36") has failed with 'Invalid UUID'
C16_Witness ==
  /\ pc = "done" /\ fn = "encodeUuid"
  /\ value = Str(<<"not-a-uuid">>) /\ arg2 = Str(<<"BASE36">>)
  /\ result = Throw("Error", "Invalid UUID")

\* the messages the adapters give the errors they raise themselves
OwnMessages ==
  {"Invalid URL", "Invalid UUID", "Invalid RFC5646 Tag. Value:",
   "Invalid basex. Valid values: ..."}

\* C17: in parseUrl, unshortenUuid, decodeUuid and languageInfo, whenever the
\* wrapped delegate fails on a defined input the function raises an Error
\* with its own fixed message; the delegate's raw exception never reaches
\* the caller.
C17_DelegateFailureWrapped ==
  ( /\ pc = "done"
    /\ fn \in {"parseUrl", "unshortenUuid", "decodeUuid", "languageInfo"}
    /\ TypeOf(value) # "undefined" /\ result.kind = "throw" )
  => (result.class = "Error" /\ result.msg \in OwnMessages)

RendererInvoked == \E i \in DOMAIN delegates : delegates[i] = "Mustache.render"

\* C19: mustache(value, template) returns value itself, without invoking the
\* renderer, when value is defined and template is undefined; it returns
\* undefined when value is undefined, whatever template is; the renderer is
\* invoked only when both are defined.
C19_Mustache ==
  (pc = "done" /\ fn = "mustache")
  => /\ TypeOf(value) = "undefined" => (result = Return(Undefined) /\ ~RendererInvoked)
     /\ (TypeOf(value) # "undefined" /\ TypeOf(arg2) = "undefined")
        => (result = Return(value) /\ ~RendererInvoked)
     /\ RendererInvoked => (TypeOf(value) # "undefined" /\ TypeOf(arg2) # "undefined")

\* mustache({name: "a"}) has returned its argument
C19_Witness ==
  /\ pc = "done" /\ fn = "mustache"
  /\ value = Obj([name |-> Str(<<"a">>)]) /\ arg2 = Undefined
  /\ result = Return(value) /\ delegates = <<>>

\* the tags of the model the language-tag parser accepts, and those of them
\* that carry no region subtag
WellFormedTags == {Str(<<"es">>), Str(<<"en-US">>)}

TagsWithoutRegion == {Str(<<"es">>)}

\* C20: languageInfo(tag) fails with an 'Invalid RFC5646 Tag' error for a tag
\* the parser marks invalid; for a valid tag it returns an object with
\* exactly the fields rfc5646, region and language, rfc5646 being the input
\* verbatim and region null when the tag has no region subtag.
C20_LanguageInfo ==
  (pc = "done" /\ fn = "languageInfo" /\ TypeOf(value) # "undefined")
  => IF value \in WellFormedTags
     THEN /\ result.kind = "return"
          /\ DOMAIN result.val.o = {"rfc5646", "region", "language"}
          /\ result.val.o.rfc5646 = value
          /\ value \in TagsWithoutRegion => result.val.o.region = Null
     ELSE /\ result.kind = "throw"
          /\ result.msg = "Invalid RFC5646 Tag. Value:"
          /\ result.about = value

\* languageInfo("es") has returned an object whose region is null
C20_Witness ==
  /\ pc = "done" /\ fn = "languageInfo" /\ value = Str(<<"es">>)
  /\ result.kind = "return"
  /\ result.val.o.rfc5646 = Str(<<"es">>)
  /\ result.val.o.region = Null

\* C21: every jsonataExtended call returns the expression object the engine
\* produced, with every extension function registered on it exactly once; if
\* the engine throws while parsing, its error propagates and the call
\* registers nothing.  (Between two idle states only registerWithJSONATA and
\* jsonataExtended take a step.)
C21_DropIn ==
  [][ (pc = "idle" /\ pc' = "idle" /\ regResult'.op = "jsonataExtended")
      => IF regResult'.result.kind = "return"
         THEN /\ regResult'.result.val = host'
              /\ TypeOf(host'.o.registerFunction) = "function"
              /\ Len(bound') = Cardinality(FunctionNames)
              /\ \A n \in FunctionNames :
                   Cardinality({i \in DOMAIN bound' : bound'[i].name = n}) = 1
         ELSE /\ regResult'.result.class = "JSONataError"
              /\ host' = host /\ bound' = bound /\ regCalls' = regCalls ]_vars

\* a jsonataExtended call has returned the engine's expression with thirteen
\* functions bound on it
C21_Witness ==
  /\ regResult = [op |-> "jsonataExtended", result |-> Return(ValidHost)]
  /\ host = ValidHost /\ Len(bound) = 13 /\ regCalls = 1
  /\ pc = "idle"

\* C22: the documented example holds: the input
\* '1234567890123456 , 789012345678901234567890' with length 20, omission
\* '...' and either wordbreak ' ' or wordbreakregex '[\s\.%,:;\?_]' gives
\* sixteen digits followed by four dots.
C22_DocumentedExample ==
  ( /\ pc = "done" /\ fn = "truncate"
    /\ value = Str(<<"1", "2", "3", "4", "5", "6", "7", "8", "9", "0", "1", "2", "3",
                     "4", "5", "6", " ", ",", " ", "7", "8", "9", "0", "1", "2", "3",
                     "4", "5", "6", "7", "8", "9", "0", "1", "2", "3", "4", "5", "6",
                     "7", "8", "9", "0">>)
    /\ arg2 \in ExampleOptions )
  => result = Return(Str(<<"1", "2", "3", "4", "5", "6", "7", "8", "9", "0", "1", "2",
                           "3", "4", "5", "6", ".", ".", ".", ".">>))

\* C23: for every defined input string and every options object that passes
\* validation truncate terminates: a call that has entered the loop looking
\* for the last wordbreakregex match eventually returns or raises, also for a
\* pattern that can match the empty string.
C23_Terminates == (pc = "regexloop") ~> (pc = "done")

\* truncate(v, o) run on its own from the call to its return or throw
RECURSIVE RunToEnd(_, _, _)
RunToEnd(v, o, frame) ==
  IF frame.pc = "done" THEN frame.result
  ELSE RunToEnd(v, o, truncateExec(v, o, frame.lastIndex, frame.lastMatch,
                                   frame.separator))

IsolatedResult(v, o) == RunToEnd(v, o, truncateEnter(v, o))

\* C24: truncate shares no state across calls: while a call runs the options
\* object the caller passed is never modified, also when a regex or a literal
\* separator is used, and every call of a sequence returns what the same
\* call returns when made on its own.
C24_NoSharedState ==
  /\ []((pc = "done" /\ fn = "truncate") => result = IsolatedResult(value, arg2))
  /\ [][(pc # "idle" /\ pc' # "idle") => arg2' = arg2]_vars

\* a call in which the regex found nothing and the literal separator was
\* assigned has returned, the caller's options being as they were passed
C24_Witness ==
  /\ pc = "done" /\ fn = "truncate"
  /\ value = Str(<<"H", "L", "a">>)
  /\ arg2 = Opt(Num(1), Str(<<>>), Str(<<"H", "L">>), Str(RxSpace))
  /\ separator = Str(<<"H", "L">>)
  /\ result = Return(Str(<<>>))

\* C25: when options.length is smaller than the codepoint count of omission
\* and the input is longer than options.length, the candidate prefix is
\* clipped to empty and truncate returns exactly the omission string.
C25_ClippedToOmission ==
  (Shortened /\ localOptions(arg2).length.n < CodepointCount(Omission))
  => result = Return(Str(Omission))

\* C26: option type validation comes before the length comparison, so a
\* wrongly typed option field raises a TypeError even for an input short
\* enough to be returned unchanged; wordbreakregex is compiled only after the
\* length comparison, so a pattern that does not compile raises nothing when
\* the input has at most options.length codepoints.
C26_OrderOfChecks ==
  (pc = "done" /\ fn = "truncate" /\ TypeOf(value) = "string")
  => /\ OffendingFields(localOptions(arg2)) # {}
        => (result.kind = "throw" /\ result.class = "TypeError")
     /\ ( /\ OffendingFields(localOptions(arg2)) = {}
          /\ TypeOf(localOptions(arg2).wordbreakregex) = "string"
          /\ localOptions(arg2).wordbreakregex.s \in {RxBad, RxUnclosed}
          /\ CodepointCount(value.s) <= localOptions(arg2).length.n )
        => result = Return(value)

\* the omission of the current call is made of k >= 1 characters outside the
\* Basic Multilingual Plane (two code units each)
AstralOmission(k) ==
  /\ k >= 1
  /\ Omission = [i \in 1..(2 * k) |-> IF i % 2 = 1 THEN "H" ELSE "L"]

\* C27: what is subtracted from options.length is the codepoint count of
\* omission, not its code-unit count: with an omission of k astral characters
\* and an input longer than length >= k, a result no word break shortened has
\* exactly length codepoints, length - k of the input followed by omission.
C27_OmissionCodepoints ==
  \A k \in 1..MaxLength :
    ( /\ Shortened /\ AstralOmission(k)
      /\ localOptions(arg2).length.n >= k
      /\ lastMatch = -1 )
    => /\ result.val.s = Prefix(localOptions(arg2).length.n - k) \o Omission
       /\ CodepointCount(result.val.s) = localOptions(arg2).length.n

\* truncate("aaa", {length: 2, omission: one astral character}) has returned
\* one letter and the omission
C27_Witness ==
  /\ Shortened /\ AstralOmission(1)
  /\ value = Str(<<"a", "a", "a">>)
  /\ localOptions(arg2).length = Num(2)
  /\ result = Return(Str(<<"a", "H", "L">>))

====
